---- MODULE Spec2Model ----
(***************************************************************************)
(* Authenticated-request pipeline of the qbit client (src/src/lib.rs):     *)
(* Api::login, Api::request and the endpoint wrappers built on them, with  *)
(* any number of calls in flight against one Api value.  The daemon is the *)
(* environment: it answers every request with a transport failure or with  *)
(* a status code, a body and, for auth/login, possibly a session cookie.   *)
(***************************************************************************)
EXTENDS Integers, Sequences, FiniteSets, TLC

\* Number of endpoint calls made on the client (concurrently or in sequence).
NumCalls == 2

Calls == 1..NumCalls

\* Session identifiers the daemon may hand out / the user may pre-supply.
Tokens == {"sidA", "sidB"}

\* Response status codes the daemon may answer with.
StatusCodes == {200, 204, 403, 404, 418}

\* StatusCode::is_success
IsSuccess(code) == code >= 200 /\ code <= 299

\* A body that is a well-formed JSON document of the type the wrapper expects.
JsonRecord == "{json}"

\* Stands for a body that cannot be read to the end as text: the stream
\* breaks, or the bytes are no text at all.
BrokenBody == "<unreadable>"

\* Response bodies that are text.
TextBodies == {"", "0", "1", "7", "01", "true", "null", "Ok.", JsonRecord}

\* What the daemon may answer as a body.
Bodies == TextBodies \cup {BrokenBody}

\* The bodies answered to the concurrent callers.
CoreBodies == {"", JsonRecord}

\* One endpoint wrapper: its path; whether it applies
\* `.and_then(|r| r.map_status(TORRENT_NOT_FOUND))`; how it turns the
\* response into its return value; the query keys it always sends; its
\* optional scalar argument ("" if it has none) and whether that field of
\* its Arg struct carries a skip-if-none attribute.
Wrap(path, notFound, decode, keys, opt, skipNone) ==
    [path |-> path, notFound |-> notFound, decode |-> decode, keys |-> keys,
     opt |-> opt, skipNone |-> skipNone]

HashScoped(path) == Wrap(path, TRUE, "json", {"hash"}, "", FALSE)

Endpoints ==
    { Wrap("auth/logout", FALSE, "discard", {}, "", FALSE),
      Wrap("app/version", FALSE, "string", {}, "", FALSE),
      Wrap("app/buildInfo", FALSE, "json", {}, "", FALSE),
      Wrap("app/preferences", FALSE, "json", {}, "", FALSE),
      Wrap("log/peers", FALSE, "json", {}, "last_known_id", TRUE),
      Wrap("sync/maindata", FALSE, "json", {}, "rid", TRUE),
      Wrap("sync/torrentPeers", TRUE, "json", {"hash"}, "rid", FALSE),
      Wrap("transfer/speedLimitsMode", FALSE, "bool01", {}, "", FALSE),
      HashScoped("torrents/properties"),
      HashScoped("torrents/trackers"),
      HashScoped("torrents/webseeds"),
      Wrap("torrents/files", TRUE, "json", {"hash"}, "indexes", TRUE),
      HashScoped("torrents/pieceStates"),
      HashScoped("torrents/pieceHashes"),
      Wrap("torrents/pause", FALSE, "json_unit", {"hashes"}, "", FALSE),
      Wrap("torrents/resume", FALSE, "json_unit", {"hashes"}, "", FALSE),
      Wrap("torrents/delete", FALSE, "json_unit", {"hashes"}, "delete_files", TRUE) }

NoEndpoint == Wrap("", FALSE, "discard", {}, "", FALSE)

\* The wrappers exercised by the concurrent callers: one plain wrapper and
\* one hash-scoped wrapper.
CoreEndpoints == {e \in Endpoints : e.path \in {"auth/logout", "torrents/properties"}}

(***************************************************************************)
(* Result<Response, Error> values.                                         *)
(***************************************************************************)
Pending == [kind |-> "Pending", code |-> 0]
Ok(code) == [kind |-> "Ok", code |-> code]
HttpError == [kind |-> "HttpError", code |-> 0]
BadResponse == [kind |-> "BadResponse", code |-> 0]
UnknownHttpCode(code) == [kind |-> "UnknownHttpCode", code |-> code]
IpBanned == [kind |-> "IpBanned", code |-> 0]
NotLoggedIn == [kind |-> "NotLoggedIn", code |-> 0]
TorrentNotFound == [kind |-> "TorrentNotFound", code |-> 0]
\* `expect("Cookie should be set after login")` failing
Panic == [kind |-> "Panic", code |-> 0]
\* `.unwrap()` / `.expect("Invalid API endpoint")` failing in url()
UrlPanic == [kind |-> "UrlPanic", code |-> 0]

\* Option<Error> returned by a status-mapping closure
NoMapping == [kind |-> "None", code |-> 0]

VARIABLES
    baseJoinable,  \* Api::endpoint is a Url that Url::join accepts as a base
    preSupplied,   \* TRUE iff the client was built by Api::new_with_cookie
    cookie,        \* Api::cookie, a OnceLock<String>: <<>> or <<token>>
    pc,            \* per call: position inside request()/login()
    endpoint,      \* per call: the endpoint wrapper that was invoked
    optArg,        \* per call: the optional scalar argument, <<>> if absent
    startedAbsent, \* per call: the cookie was absent when the call began
    loginStatus,   \* per call: status of the login response, <<>> if none
    extracted,     \* per call: login()'s local `cookie`, <<>> if none
    sentCookie,    \* per call: Cookie header of the dispatched target request
    query,         \* per call: key/value pairs of the target request's query
    targetStatus,  \* per call: status of the target response, <<>> if none
    bodyRead,      \* per call: the body the wrapper consumed, <<>> if none
    trace,         \* per call: requests sent and responses received, in order
    result,        \* per call: what the endpoint call returned
    value,         \* per call: the value inside a returned Ok, "" if none
    loginsSent     \* number of requests sent to auth/login by this client

vars == <<baseJoinable, preSupplied, cookie, pc, endpoint, optArg,
          startedAbsent, loginStatus, extracted, sentCookie, query,
          targetStatus, bodyRead, trace, result, value, loginsSent>>

\* Option<String>: <<>> or <<token>>
OptToken == {<<>>} \cup {<<t>> : t \in Tokens}

\* Faulty variant: a plain assignment instead of a write-once set.
OnceLockSet_Overwrite(cell, tok) == <<tok>>

\* OnceLock::set: installs the value only when the cell is still empty.
OnceLockSet(cell, tok) == IF cell = <<>> THEN <<tok>> ELSE cell

\* Faulty variant: the login closure answers like the one of request().
LoginStatusMap_Swapped(code) == IF code = 403 THEN NotLoggedIn ELSE NoMapping

\* The closure handed to map_status in login().
LoginStatusMap(code) == IF code = 403 THEN IpBanned ELSE NoMapping

\* Faulty variant: every error status is taken for a missing login.
RequestStatusMap_CatchAll(code) == NotLoggedIn

\* The closure handed to map_status in request().
RequestStatusMap(code) == IF code = 403 THEN NotLoggedIn ELSE NoMapping

\* ext::TORRENT_NOT_FOUND
TORRENT_NOT_FOUND(code) == IF code = 404 THEN TorrentNotFound ELSE NoMapping

\* ResponseExt::map_status, given the closure's answer for this status.
MapStatus(code, mapped) ==
    IF IsSuccess(code) THEN Ok(code)
    ELSE IF mapped # NoMapping THEN mapped
    ELSE UnknownHttpCode(code)

\* What the endpoint wrapper makes of the value request() returned.
Wrapper(e, r) ==
    IF e.notFound /\ r.kind = "Ok"
    THEN MapStatus(r.code, TORRENT_NOT_FOUND(r.code))
    ELSE r

(***************************************************************************)
(* Argument codec: the wrapper's Arg value and Request::set_query.         *)
(***************************************************************************)
\* Faulty variant: an absent argument is replaced by a default value.
OptArg_Defaulted(given) == IF given = <<>> THEN <<"0">> ELSE given

\* The optional field of the wrapper's Arg struct: `x.into()`.
OptArg(given) == given

\* The query serializer on a None that reaches it: it writes nothing.
SerializeNone(key) == {}

\* One Option field of an Arg struct, serialized into key/value pairs.
SerializeOpt(key, skipNone, v) ==
    IF v # <<>> THEN {<<key, v[1]>>}
    ELSE IF skipNone THEN {}
    ELSE SerializeNone(key)

\* `req.set_query(qs)` for the Arg value of wrapper e.
SerializeQuery(e, given) ==
    {<<k, "x">> : k \in e.keys}
        \cup (IF e.opt = "" THEN {} ELSE SerializeOpt(e.opt, e.skipNone, OptArg(given)))

QueryKeys(q) == {p[1] : p \in q}

(***************************************************************************)
(* Response decoding in the wrappers.  A decoder answers with the result   *)
(* of the call, the value inside Ok and the body it consumed.              *)
(***************************************************************************)
Decoded(r, v, read) == [result |-> r, value |-> v, read |-> read]

\* From<http_client::Error> for Error
FromHttpClientError == HttpError

\* Response::body_string: fails when the body cannot be read as text.
BodyString(body) == IF body = BrokenBody THEN <<>> ELSE <<body>>

\* Response::body_json::<T> for a record type T: the body must be a JSON
\* document of that type.
BodyJson(body) == IF body = JsonRecord THEN <<"record">> ELSE <<>>

\* Response::body_json::<()>: the body must be the JSON value null.
BodyJsonUnit(body) == IF body = "null" THEN <<"unit">> ELSE <<>>

\* Faulty variant: the two literals of get_speed_limits_mode exchanged.
SpeedLimitsMode_Swapped(s) ==
    IF s = "0" THEN <<"true">> ELSE IF s = "1" THEN <<"false">> ELSE <<>>

\* The match in get_speed_limits_mode; <<>> stands for BadResponse.
SpeedLimitsMode(s) ==
    IF s = "0" THEN <<"false">> ELSE IF s = "1" THEN <<"true">> ELSE <<>>

\* `.map_err(Into::into)` on the outcome of a body_* call.
MapErrInto(code, out, body) ==
    IF out = <<>> THEN Decoded(FromHttpClientError, "", <<body>>)
    ELSE Decoded(Ok(code), out[1], <<body>>)

\* The tail of wrapper e applied to an Ok response of request().
Decode(e, code, body) ==
    CASE e.decode = "discard" -> Decoded(Ok(code), "unit", <<>>)
      [] e.decode = "string" -> MapErrInto(code, BodyString(body), body)
      [] e.decode = "json" -> MapErrInto(code, BodyJson(body), body)
      [] e.decode = "json_unit" -> MapErrInto(code, BodyJsonUnit(body), body)
      [] e.decode = "bool01" ->
            IF BodyString(body) = <<>>
            THEN Decoded(FromHttpClientError, "", <<body>>)
            ELSE IF SpeedLimitsMode(body) = <<>>
            THEN Decoded(BadResponse, "", <<body>>)
            ELSE Decoded(Ok(code), SpeedLimitsMode(body)[1], <<body>>)

\* What request() returns for a response with this status.
RequestClassify(code) == MapStatus(code, RequestStatusMap(code))

\* The whole wrapper on a response with this status and body.
Finish(e, code, body) ==
    LET r == Wrapper(e, RequestClassify(code)) IN
    IF r.kind = "Ok" THEN Decode(e, code, body) ELSE Decoded(r, "", <<>>)

(***************************************************************************)
(* Construction.                                                           *)
(***************************************************************************)
InitCalls ==
    /\ pc = [c \in Calls |-> "idle"]
    /\ endpoint = [c \in Calls |-> NoEndpoint]
    /\ optArg = [c \in Calls |-> <<>>]
    /\ startedAbsent = [c \in Calls |-> FALSE]
    /\ loginStatus = [c \in Calls |-> <<>>]
    /\ extracted = [c \in Calls |-> <<>>]
    /\ sentCookie = [c \in Calls |-> <<>>]
    /\ query = [c \in Calls |-> {}]
    /\ targetStatus = [c \in Calls |-> <<>>]
    /\ bodyRead = [c \in Calls |-> <<>>]
    /\ trace = [c \in Calls |-> <<>>]
    /\ result = [c \in Calls |-> Pending]
    /\ value = [c \in Calls |-> ""]
    /\ loginsSent = 0

\* Faulty variant: new_with_cookie leaves the cell empty.
Init_EmptyCell ==
    /\ baseJoinable = TRUE
    /\ preSupplied \in BOOLEAN
    /\ cookie = <<>>
    /\ InitCalls

\* Api::new / Api::new_with_cookie, given a base address such as
\* http://host:8080/ that Url::join accepts.
Init ==
    /\ baseJoinable = TRUE
    /\ preSupplied \in BOOLEAN
    /\ cookie \in IF preSupplied THEN {<<t>> : t \in Tokens} ELSE {<<>>}
    /\ InitCalls

\* Api::new / Api::new_with_cookie, given any Url value, including one that
\* cannot be a base (mailto:, data:): neither constructor looks at it.
InitAnyBase ==
    /\ baseJoinable \in BOOLEAN
    /\ preSupplied \in BOOLEAN
    /\ cookie \in IF preSupplied THEN {<<t>> : t \in Tokens} ELSE {<<>>}
    /\ InitCalls

(***************************************************************************)
(* login() and request().                                                  *)
(***************************************************************************)
\* url(): Url::join fails on a Url that cannot be a base, and the unwrap
\* aborts the call.
UrlFails == ~baseJoinable

UrlAborts(c) ==
    /\ pc' = [pc EXCEPT ![c] = "done"]
    /\ result' = [result EXCEPT ![c] = UrlPanic]

\* login() sending the login request and suspending on the send.
SendLogin(c) ==
    IF UrlFails
    THEN UrlAborts(c) /\ UNCHANGED <<trace, loginsSent>>
    ELSE /\ pc' = [pc EXCEPT ![c] = "loginWait"]
         /\ trace' = [trace EXCEPT ![c] = Append(@, "login_req")]
         /\ loginsSent' = loginsSent + 1
         /\ UNCHANGED result

\* login() returning Ok without an exchange.
SkipLogin(c) ==
    /\ pc' = [pc EXCEPT ![c] = "build"]
    /\ UNCHANGED <<trace, loginsSent, result>>

\* Faulty variant: login() without the test of the cell.
LoginBegin_NoCheck(c) == SendLogin(c)

\* Faulty variant: login() with the test of the cell negated.
LoginBegin_Inverted(c) == IF cookie # <<>> THEN SendLogin(c) ELSE SkipLogin(c)

\* login(), up to its suspension point: test the cell, send the login request.
LoginBegin(c) == IF cookie = <<>> THEN SendLogin(c) ELSE SkipLogin(c)

\* Endpoint wrapper e is invoked with optional argument `given`: request()
\* starts and enters login().
Invoke(c, e, given) ==
    /\ pc[c] = "idle"
    /\ endpoint' = [endpoint EXCEPT ![c] = e]
    /\ optArg' = [optArg EXCEPT ![c] = given]
    /\ startedAbsent' = [startedAbsent EXCEPT ![c] = (cookie = <<>>)]
    /\ LoginBegin(c)
    /\ UNCHANGED <<baseJoinable, preSupplied, cookie, loginStatus, extracted,
                   sentCookie, query, targetStatus, bodyRead, value>>

\* The values a caller may pass for the optional argument of wrapper e.
OptArgs(e) == IF e.opt = "" THEN {<<>>} ELSE {<<>>, <<"5">>}

\* A caller invokes a wrapper while other calls may be in flight.
Request(c) == \E e \in CoreEndpoints : \E given \in OptArgs(e) : Invoke(c, e, given)

\* The first call made on a freshly constructed client invokes any wrapper.
FirstRequest(c) ==
    /\ \A d \in Calls : pc[d] = "idle"
    /\ \E e \in Endpoints : \E given \in OptArgs(e) : Invoke(c, e, given)

\* login() resumes with a transport failure of the login send.
LoginTransportError(c) ==
    /\ pc[c] = "loginWait"
    /\ pc' = [pc EXCEPT ![c] = "done"]
    /\ trace' = [trace EXCEPT ![c] = Append(@, "login_err")]
    /\ result' = [result EXCEPT ![c] = FromHttpClientError]
    /\ UNCHANGED <<baseJoinable, preSupplied, cookie, endpoint, optArg,
                   startedAbsent, loginStatus, extracted, sentCookie, query,
                   targetStatus, bodyRead, value, loginsSent>>

\* The login exchange failed: login() and with it the whole call return err.
LoginFail(c, err) ==
    /\ pc' = [pc EXCEPT ![c] = "done"]
    /\ result' = [result EXCEPT ![c] = err]

\* Faulty variant: the extracted token is never put into the cell.
LoginInstall_NoSet(c, token) ==
    /\ extracted' = [extracted EXCEPT ![c] = <<token>>]
    /\ pc' = [pc EXCEPT ![c] = "build"]
    /\ UNCHANGED <<cookie, result>>

\* The login exchange produced `token`: install it, login() returns Ok.
LoginInstall(c, token) ==
    /\ extracted' = [extracted EXCEPT ![c] = <<token>>]
    /\ cookie' = OnceLockSet(cookie, token)
    /\ pc' = [pc EXCEPT ![c] = "build"]
    /\ UNCHANGED result

\* ext: `extract::<Cookie>()` on a response with this session cookie; <<>>
\* stands for its error.
ExtractCookie(setCookie) == setCookie

\* The error of a failed `extract::<Cookie>()`.
ExtractError == BadResponse

\* Faulty variant: the cookie is extracted and installed before the status
\* is classified.
LoginHandle_InstallFirst(c, code, setCookie) ==
    LET st == MapStatus(code, LoginStatusMap(code)) IN
    /\ trace' = [trace EXCEPT ![c] = Append(@, "login_resp")]
    /\ loginStatus' = [loginStatus EXCEPT ![c] = <<code>>]
    /\ IF setCookie = <<>>
       THEN LoginFail(c, BadResponse) /\ UNCHANGED <<cookie, extracted>>
       ELSE IF st.kind # "Ok"
       THEN /\ LoginFail(c, st)
            /\ cookie' = OnceLockSet(cookie, setCookie[1])
            /\ UNCHANGED extracted
       ELSE LoginInstall(c, setCookie[1])

\* Faulty variant: a response without a session cookie still lets login()
\* return Ok.
LoginHandle_IgnoreMissing(c, code, setCookie) ==
    LET st == MapStatus(code, LoginStatusMap(code)) IN
    /\ trace' = [trace EXCEPT ![c] = Append(@, "login_resp")]
    /\ loginStatus' = [loginStatus EXCEPT ![c] = <<code>>]
    /\ IF st.kind # "Ok"
       THEN LoginFail(c, st) /\ UNCHANGED <<cookie, extracted>>
       ELSE IF ExtractCookie(setCookie) = <<>>
       THEN /\ pc' = [pc EXCEPT ![c] = "build"]
            /\ UNCHANGED <<cookie, extracted, result>>
       ELSE LoginInstall(c, ExtractCookie(setCookie)[1])

\* login() resumes with a response: classify, extract the cookie, install it.
\* `setCookie` is the session cookie of the response, <<>> when it has none.
LoginHandle(c, code, setCookie) ==
    LET st == MapStatus(code, LoginStatusMap(code)) IN
    /\ trace' = [trace EXCEPT ![c] = Append(@, "login_resp")]
    /\ loginStatus' = [loginStatus EXCEPT ![c] = <<code>>]
    /\ IF st.kind # "Ok"
       THEN LoginFail(c, st) /\ UNCHANGED <<cookie, extracted>>
       ELSE IF ExtractCookie(setCookie) = <<>>
       THEN LoginFail(c, ExtractError) /\ UNCHANGED <<cookie, extracted>>
       ELSE LoginInstall(c, ExtractCookie(setCookie)[1])

LoginResponse(c) ==
    /\ pc[c] = "loginWait"
    /\ \E code \in StatusCodes, setCookie \in OptToken :
            LoginHandle(c, code, setCookie)
    /\ UNCHANGED <<baseJoinable, preSupplied, endpoint, optArg, startedAbsent,
                   sentCookie, query, targetStatus, bodyRead, value, loginsSent>>

\* The target request leaves with this Cookie header and the query of the
\* wrapper's Arg value.
Dispatch(c, header) ==
    /\ pc' = [pc EXCEPT ![c] = "targetWait"]
    /\ sentCookie' = [sentCookie EXCEPT ![c] = header]
    /\ query' = [query EXCEPT ![c] = SerializeQuery(endpoint[c], optArg[c])]
    /\ trace' = [trace EXCEPT ![c] = Append(@, "target_req")]
    /\ UNCHANGED result

\* `expect("Cookie should be set after login")` on an empty cell.
ExpectFails(c) ==
    /\ pc' = [pc EXCEPT ![c] = "done"]
    /\ result' = [result EXCEPT ![c] = Panic]
    /\ UNCHANGED <<sentCookie, query, trace>>

\* Faulty variant: the header is the token this call extracted itself.
CookieHeader_OwnToken(c) == IF extracted[c] # <<>> THEN extracted[c] ELSE cookie

\* `self.cookie.get()` in request()
CookieHeader(c) == cookie

\* request() after login() returned Ok: resolve the address, build the
\* target request with the Cookie header and the query, and send it.
BuildAndSend(c) ==
    /\ pc[c] = "build"
    /\ IF UrlFails THEN UrlAborts(c) /\ UNCHANGED <<sentCookie, query, trace>>
       ELSE IF CookieHeader(c) = <<>> THEN ExpectFails(c)
       ELSE Dispatch(c, CookieHeader(c))
    /\ UNCHANGED <<baseJoinable, preSupplied, cookie, endpoint, optArg,
                   startedAbsent, loginStatus, extracted, targetStatus,
                   bodyRead, value, loginsSent>>

\* Faulty variant: a failed target send is followed by a second send.
TransportError_Retry(c) ==
    /\ pc[c] = "targetWait"
    /\ IF Len(trace[c]) < 5
       THEN /\ trace' = [trace EXCEPT ![c] = @ \o <<"target_err", "target_req">>]
            /\ UNCHANGED <<pc, result>>
       ELSE /\ pc' = [pc EXCEPT ![c] = "done"]
            /\ trace' = [trace EXCEPT ![c] = Append(@, "target_err")]
            /\ result' = [result EXCEPT ![c] = FromHttpClientError]
    /\ UNCHANGED <<baseJoinable, preSupplied, cookie, endpoint, optArg,
                   startedAbsent, loginStatus, extracted, sentCookie, query,
                   targetStatus, bodyRead, value, loginsSent>>

\* request() resumes with a transport failure of the target send.
TransportError(c) ==
    /\ pc[c] = "targetWait"
    /\ pc' = [pc EXCEPT ![c] = "done"]
    /\ trace' = [trace EXCEPT ![c] = Append(@, "target_err")]
    /\ result' = [result EXCEPT ![c] = FromHttpClientError]
    /\ UNCHANGED <<baseJoinable, preSupplied, cookie, endpoint, optArg,
                   startedAbsent, loginStatus, extracted, sentCookie, query,
                   targetStatus, bodyRead, value, loginsSent>>

\* The call returns what the wrapper made of the response.
Return(c, d) ==
    /\ pc' = [pc EXCEPT ![c] = "done"]
    /\ result' = [result EXCEPT ![c] = d.result]
    /\ value' = [value EXCEPT ![c] = d.value]
    /\ bodyRead' = [bodyRead EXCEPT ![c] = d.read]

\* Faulty variant: a 403 on the target sends the call back through login.
Respond_Relogin(c, code, body) ==
    /\ trace' = [trace EXCEPT ![c] = Append(@, "target_resp")]
    /\ targetStatus' = [targetStatus EXCEPT ![c] = <<code>>]
    /\ IF code = 403 /\ loginsSent < NumCalls
       THEN /\ pc' = [pc EXCEPT ![c] = "loginWait"]
            /\ loginsSent' = loginsSent + 1
            /\ UNCHANGED <<result, value, bodyRead>>
       ELSE /\ Return(c, Finish(endpoint[c], code, body))
            /\ UNCHANGED loginsSent
    /\ UNCHANGED cookie

\* Faulty variant: a successful logout empties the cell.
Respond_LogoutClears(c, code, body) ==
    /\ trace' = [trace EXCEPT ![c] = Append(@, "target_resp")]
    /\ targetStatus' = [targetStatus EXCEPT ![c] = <<code>>]
    /\ Return(c, Finish(endpoint[c], code, body))
    /\ cookie' = IF endpoint[c].path = "auth/logout" /\ IsSuccess(code)
                 THEN <<>> ELSE cookie
    /\ UNCHANGED loginsSent

\* request() resumes with a response; the wrapper classifies it and decodes
\* the body.
Respond(c, code, body) ==
    /\ trace' = [trace EXCEPT ![c] = Append(@, "target_resp")]
    /\ targetStatus' = [targetStatus EXCEPT ![c] = <<code>>]
    /\ Return(c, Finish(endpoint[c], code, body))
    /\ UNCHANGED <<cookie, loginsSent>>

\* The body of a target response.  No wrapper reads the body of a response
\* whose status is an error, so those are taken with an empty one.
ResponseBodies(code, bodies) == IF IsSuccess(code) THEN bodies ELSE {""}

Response(c) ==
    /\ pc[c] = "targetWait"
    /\ \E code \in StatusCodes :
         \E body \in ResponseBodies(code, CoreBodies) : Respond(c, code, body)
    /\ UNCHANGED <<baseJoinable, preSupplied, endpoint, optArg, startedAbsent,
                   loginStatus, extracted, sentCookie, query>>

\* The response to the single call of a fresh client, with any body.
FirstResponse(c) ==
    /\ pc[c] = "targetWait"
    /\ \E code \in StatusCodes :
         \E body \in ResponseBodies(code, Bodies) : Respond(c, code, body)
    /\ UNCHANGED <<baseJoinable, preSupplied, endpoint, optArg, startedAbsent,
                   loginStatus, extracted, sentCookie, query>>

Next ==
    \E c \in Calls :
        \/ Request(c)
        \/ LoginTransportError(c)
        \/ LoginResponse(c)
        \/ BuildAndSend(c)
        \/ TransportError(c)
        \/ Response(c)

Spec == Init /\ [][Next]_vars

\* A single call on a fresh client, over every endpoint wrapper.
NextFirst ==
    \E c \in Calls :
        \/ FirstRequest(c)
        \/ LoginTransportError(c)
        \/ LoginResponse(c)
        \/ BuildAndSend(c)
        \/ TransportError(c)
        \/ FirstResponse(c)

SpecFirst == Init /\ [][NextFirst]_vars

\* A single call on a client constructed with any Url as its endpoint.
SpecAnyBase == InitAnyBase /\ [][NextFirst]_vars

TypeOK ==
    /\ preSupplied \in BOOLEAN
    /\ cookie \in OptToken
    /\ pc \in [Calls -> {"idle", "loginWait", "build", "targetWait", "done"}]
    /\ extracted \in [Calls -> OptToken]
    /\ sentCookie \in [Calls -> OptToken]
    /\ loginsSent \in 0..NumCalls

(***************************************************************************)
(* Helpers for the properties.                                             *)
(***************************************************************************)
Has(c, ev) == \E i \in 1..Len(trace[c]) : trace[c][i] = ev

Count(c, ev) == Cardinality({i \in 1..Len(trace[c]) : trace[c][i] = ev})

Started == {c \in Calls : pc[c] # "idle"}

\* The login exchange of call c ended in an error.
LoginFailed(c) ==
    /\ pc[c] = "done"
    /\ Has(c, "login_req")
    /\ ~Has(c, "target_req")
    /\ result[c] # Panic

(***************************************************************************)
(* C1 (as stated): on a credential-based client, the calls made send       *)
(* exactly one login request in total.                                     *)
(***************************************************************************)
C1_ExactlyOneLogin ==
    (~preSupplied /\ Started # {}) => loginsSent = 1

(***************************************************************************)
(* C1 (amended): a login request is sent only while the cookie is absent,  *)
(* one per call at most; calls racing before the first token is installed  *)
(* send between one and as many login requests as there are calls.         *)
(***************************************************************************)
C1_NoLoginOnceCached ==
    [][ /\ loginsSent' # loginsSent =>
              (cookie = <<>> /\ loginsSent' = loginsSent + 1)
        /\ \A c \in Calls : Count(c, "login_req")' <= 1
        /\ loginsSent' <= Cardinality(Started')
        /\ (~preSupplied /\ Started' # {}) => loginsSent' >= 1 ]_vars

\* Both calls raced through login(): two login requests, one token kept.
C1_Witness ==
    /\ ~preSupplied
    /\ loginsSent = NumCalls
    /\ cookie # <<>>
    /\ \A c \in Calls : pc[c] = "done" /\ result[c].kind = "Ok"

(***************************************************************************)
(* C2: the cookie cell is absent or holds one token, and once it holds a   *)
(* token no step changes or clears it.                                     *)
(***************************************************************************)
C2_SingleAssignment ==
    [][ /\ cookie \in OptToken
        /\ cookie' \in OptToken
        /\ cookie # <<>> => cookie' = cookie ]_vars

\* A second successful login exchange brought another token; the first stays.
C2_Witness ==
    \E c, d \in Calls :
        /\ extracted[c] # <<>> /\ extracted[d] # <<>>
        /\ extracted[c] # extracted[d]
        /\ cookie = extracted[c]
        /\ pc[d] = "done"

(***************************************************************************)
(* C3: when two login exchanges succeed, the caller whose install is       *)
(* rejected does not fail at login (it goes on to dispatch its target      *)
(* request), and all target requests carry the one retained token.         *)
(***************************************************************************)
C3_RaceKeepsFirst ==
    /\ \A c \in Calls :
          extracted[c] # <<>> =>
             /\ cookie # <<>>
             /\ pc[c] \in {"build", "targetWait", "done"}
             /\ pc[c] = "done" => (Has(c, "target_req") /\ result[c] # Panic)
    /\ \A c, d \in Calls :
          (sentCookie[c] # <<>> /\ sentCookie[d] # <<>>) =>
             (sentCookie[c] = sentCookie[d] /\ sentCookie[c] = cookie)

\* Two exchanges succeeded with different tokens; both targets went out.
C3_Witness ==
    \E c, d \in Calls :
        /\ extracted[c] # <<>> /\ extracted[d] # <<>>
        /\ extracted[d] # cookie
        /\ extracted[c] = cookie
        /\ sentCookie[c] = cookie /\ sentCookie[d] = cookie
        /\ result[c].kind = "Ok" /\ result[d].kind = "Ok"

(***************************************************************************)
(* C4: a client built with a pre-supplied token never sends a request to   *)
(* auth/login, whatever its calls return.                                  *)
(***************************************************************************)
C4_NoLoginWithPreSupplied ==
    preSupplied =>
        /\ loginsSent = 0
        /\ \A c \in Calls : ~Has(c, "login_req") /\ loginStatus[c] = <<>>

\* One call failed with 403, another with a transport error; still no login.
C4_Witness ==
    /\ preSupplied
    /\ \E c, d \in Calls :
          /\ result[c] = NotLoggedIn /\ targetStatus[c] = <<403>>
          /\ result[d] = HttpError /\ Has(d, "target_err")

(***************************************************************************)
(* C5: a call that begins with the cookie absent sends the login request   *)
(* first and has its response before it sends the target request; no       *)
(* target request is out while the cookie is absent.                       *)
(***************************************************************************)
C5_LoginBeforeTarget ==
    \A c \in Calls :
        /\ (pc[c] # "idle" /\ startedAbsent[c]) =>
              /\ Len(trace[c]) >= 1 /\ trace[c][1] = "login_req"
              /\ Has(c, "target_req") =>
                    (trace[c][2] = "login_resp" /\ trace[c][3] = "target_req")
        /\ Has(c, "target_req") => (cookie # <<>> /\ sentCookie[c] # <<>>)

\* A call that began without a token has completed login and target.
C5_Witness ==
    \E c \in Calls :
        /\ startedAbsent[c]
        /\ trace[c] = <<"login_req", "login_resp", "target_req", "target_resp">>
        /\ result[c].kind = "Ok"

(***************************************************************************)
(* C6: a failed login exchange leaves the cookie cell as it was, a token   *)
(* in the cell always comes from a successful exchange (so after failures  *)
(* alone it is still absent), and a call that begins while the cell is     *)
(* empty sends a fresh login request.                                      *)
(***************************************************************************)
C6_FailedLoginRetried ==
    [][ /\ \A c \in Calls :
              /\ (pc[c] = "loginWait" /\ pc'[c] = "done") => cookie' = cookie
              /\ (pc[c] = "idle" /\ pc'[c] # "idle" /\ cookie = <<>>) =>
                    /\ pc'[c] = "loginWait"
                    /\ trace'[c] = <<"login_req">>
                    /\ loginsSent' = loginsSent + 1
        /\ (cookie' # <<>> /\ ~preSupplied) =>
              \E d \in Calls : extracted'[d] = cookie' ]_vars

\* One call was refused at login, the cell is empty, another login is out.
C6_Witness ==
    \E c, d \in Calls :
        /\ LoginFailed(c) /\ result[c] = IpBanned
        /\ cookie = <<>>
        /\ pc[d] = "loginWait" /\ trace[d] = <<"login_req">>
        /\ loginsSent = 2

(***************************************************************************)
(* C7: a call that begins with the cookie present sends no login request   *)
(* and its target request carries the cached token; a target answered 403  *)
(* ends the call with NotLoggedIn, the token still cached, after exactly   *)
(* one target request and no login request following it.                   *)
(***************************************************************************)
C7_CachedTokenReused ==
    \A c \in Calls :
        /\ (pc[c] # "idle" /\ ~startedAbsent[c]) =>
              /\ ~Has(c, "login_req") /\ loginStatus[c] = <<>>
              /\ cookie # <<>>
              /\ Has(c, "target_req") => sentCookie[c] = cookie
        /\ targetStatus[c] = <<403>> =>
              /\ pc[c] = "done" /\ result[c] = NotLoggedIn
              /\ cookie # <<>> /\ sentCookie[c] = cookie
              /\ Count(c, "target_req") = 1
              /\ trace[c][Len(trace[c])] = "target_resp"
              /\ Count(c, "login_req") = (IF startedAbsent[c] THEN 1 ELSE 0)

\* A call that began after another call's login cached the token got a 403.
C7_Witness ==
    /\ ~preSupplied
    /\ \E c \in Calls :
          /\ ~startedAbsent[c]
          /\ trace[c] = <<"target_req", "target_resp">>
          /\ result[c] = NotLoggedIn
          /\ sentCookie[c] = cookie

(***************************************************************************)
(* C8: a 403 answer to the login request yields IpBanned, a 403 answer to  *)
(* a target request yields NotLoggedIn, and neither error arises any other *)
(* way.                                                                    *)
(***************************************************************************)
C8_ForbiddenByContext ==
    \A c \in Calls :
        /\ loginStatus[c] = <<403>> =>
              (result[c] = IpBanned /\ ~Has(c, "target_req"))
        /\ targetStatus[c] = <<403>> => result[c] = NotLoggedIn
        /\ result[c] = IpBanned => loginStatus[c] = <<403>>
        /\ result[c] = NotLoggedIn => targetStatus[c] = <<403>>

\* One call was banned at login, another was refused at its target.
C8_Witness ==
    \E c, d \in Calls :
        /\ loginStatus[c] = <<403>> /\ result[c] = IpBanned
        /\ targetStatus[d] = <<403>> /\ result[d] = NotLoggedIn

(***************************************************************************)
(* C9: on a hash-scoped wrapper that applies TORRENT_NOT_FOUND, a target   *)
(* answered 404 yields TorrentNotFound.                                    *)
(***************************************************************************)
C9_NotFoundOverride ==
    \A c \in Calls :
        (endpoint[c].notFound /\ targetStatus[c] = <<404>>) =>
            result[c] = TorrentNotFound

(***************************************************************************)
(* C10: a non-2xx status with no mapping for the call ends the call with   *)
(* UnknownHttpCode carrying that status; a 2xx status is never turned into *)
(* a status error; UnknownHttpCode never carries anything but the status   *)
(* of the response that was classified.                                    *)
(***************************************************************************)
StatusErrors == {"UnknownHttpCode", "IpBanned", "NotLoggedIn", "TorrentNotFound"}

C10_UnknownStatus ==
    \A c \in Calls :
        /\ targetStatus[c] # <<>> =>
              LET s == targetStatus[c][1] IN
              /\ IsSuccess(s) => result[c].kind \notin StatusErrors
              /\ (~IsSuccess(s) /\ s # 403 /\ ~(endpoint[c].notFound /\ s = 404))
                    => result[c] = UnknownHttpCode(s)
        /\ (loginStatus[c] # <<>> /\ targetStatus[c] = <<>>) =>
              LET s == loginStatus[c][1] IN
              /\ IsSuccess(s) => result[c].kind \notin StatusErrors
              /\ (~IsSuccess(s) /\ s # 403) => result[c] = UnknownHttpCode(s)
        /\ result[c].kind = "UnknownHttpCode" =>
              /\ ~IsSuccess(result[c].code)
              /\ <<result[c].code>> =
                    (IF targetStatus[c] # <<>> THEN targetStatus[c]
                                               ELSE loginStatus[c])

\* A target request was answered 418.
C10_Witness ==
    \E c \in Calls :
        /\ targetStatus[c] = <<418>>
        /\ result[c] = UnknownHttpCode(418)

(***************************************************************************)
(* C11: a body that is text but cannot be decoded into the type the        *)
(* wrapper expects (malformed JSON for get_build_info, get_preferences and *)
(* the other JSON wrappers) ends the call with BadResponse, not with the   *)
(* variant used for transport failures.                                    *)
(***************************************************************************)
C11_DecodeFailureIsBadResponse ==
    \A c \in Calls :
        ( /\ endpoint[c].decode = "json"
          /\ bodyRead[c] # <<>>
          /\ bodyRead[c][1] \in TextBodies \ {JsonRecord} )
            => result[c] = BadResponse

(***************************************************************************)
(* C12: a transport failure of the login send or of the target send ends   *)
(* the call with HttpError, and HttpError is returned for nothing but a    *)
(* transport failure (of a send or of reading the body).                   *)
(***************************************************************************)
TransportFailed(c) ==
    \/ Has(c, "login_err")
    \/ Has(c, "target_err")
    \/ bodyRead[c] = <<BrokenBody>>

C12_TransportErrorsExact ==
    \A c \in Calls :
        /\ (Has(c, "login_err") \/ Has(c, "target_err")) => result[c] = HttpError
        /\ result[c] = HttpError => TransportFailed(c)

(***************************************************************************)
(* C13: one call sends at most one login request and at most one target    *)
(* request, and a failure is the last thing that happens in the call.      *)
(***************************************************************************)
Failed(c) == result[c].kind \notin {"Pending", "Ok"}

Last(c) == trace[c][Len(trace[c])]

C13_NoRetry ==
    \A c \in Calls :
        /\ Count(c, "login_req") <= 1
        /\ Count(c, "target_req") <= 1
        /\ Count(c, "login_resp") + Count(c, "login_err") <= 1
        /\ Count(c, "target_resp") + Count(c, "target_err") <= 1
        /\ Failed(c) =>
              /\ pc[c] = "done"
              /\ Last(c) \in {"login_resp", "login_err", "target_resp", "target_err"}
              /\ Last(c) \in {"login_resp", "login_err"} => ~Has(c, "target_req")

\* One call failed at its target send after a login, another at login.
C13_Witness ==
    \E c, d \in Calls :
        /\ trace[c] = <<"login_req", "login_resp", "target_req", "target_err">>
        /\ result[c] = HttpError
        /\ trace[d] = <<"login_req", "login_resp">>
        /\ Failed(d)

(***************************************************************************)
(* C14: get_speed_limits_mode, on a 2xx response whose body is text,       *)
(* returns false exactly for "0", true exactly for "1", and BadResponse    *)
(* for every other text.                                                   *)
(***************************************************************************)
C14_SpeedLimitsMode ==
    \A c \in Calls :
        ( /\ endpoint[c].path = "transfer/speedLimitsMode"
          /\ bodyRead[c] # <<>>
          /\ bodyRead[c][1] \in TextBodies )
            => LET b == bodyRead[c][1] IN
               /\ (result[c].kind = "Ok" /\ value[c] = "false") <=> b = "0"
               /\ (result[c].kind = "Ok" /\ value[c] = "true") <=> b = "1"
               /\ b \notin {"0", "1"} <=> result[c] = BadResponse

\* The body "7" was rejected.
C14_Witness ==
    \E c \in Calls :
        /\ endpoint[c].path = "transfer/speedLimitsMode"
        /\ bodyRead[c] = <<"7">>
        /\ result[c] = BadResponse

(***************************************************************************)
(* C15: when the optional scalar argument of a wrapper is absent, the      *)
(* query of the target request has no pair with its key; when it is        *)
(* present, the query has the key with the given value.                    *)
(***************************************************************************)
C15_AbsentOptionalOmitted ==
    \A c \in Calls :
        (Has(c, "target_req") /\ endpoint[c].opt # "") =>
            /\ optArg[c] = <<>> => endpoint[c].opt \notin QueryKeys(query[c])
            /\ optArg[c] # <<>> => <<endpoint[c].opt, optArg[c][1]>> \in query[c]
            /\ endpoint[c].keys \subseteq QueryKeys(query[c])

\* get_torrent_peers(hash, None) was dispatched with the hash alone.
C15_Witness ==
    \E c \in Calls :
        /\ endpoint[c].path = "sync/torrentPeers"
        /\ optArg[c] = <<>>
        /\ Has(c, "target_req")
        /\ QueryKeys(query[c]) = {"hash"}

(***************************************************************************)
(* C16: whatever Url the client was constructed with, no call aborts in    *)
(* url().                                                                  *)
(***************************************************************************)
C16_BaseRejectedAtConstruction ==
    \A c \in Calls : result[c] # UrlPanic

(***************************************************************************)
(* C17: pause_torrents, resume_torrents and delete_torrents return Ok on   *)
(* every 2xx response, whatever its body.                                  *)
(***************************************************************************)
VoidPaths == {"torrents/pause", "torrents/resume", "torrents/delete"}

C17_VoidCallsIgnoreBody ==
    \A c \in Calls :
        ( /\ endpoint[c].path \in VoidPaths
          /\ targetStatus[c] # <<>>
          /\ IsSuccess(targetStatus[c][1]) )
            => (result[c].kind = "Ok" /\ value[c] = "unit")

(***************************************************************************)
(* C18: a call that is past login() finds the cookie present, so the       *)
(* expect in request() never fails, and the Cookie header of every target  *)
(* request is the cached token.                                            *)
(***************************************************************************)
C18_CookiePresentAfterLogin ==
    \A c \in Calls :
        /\ result[c] # Panic
        /\ pc[c] \in {"build", "targetWait"} => cookie # <<>>
        /\ Has(c, "target_req") => (sentCookie[c] # <<>> /\ sentCookie[c] = cookie)

\* A call whose own token was not retained has its target request out.
C18_Witness ==
    \E c \in Calls :
        /\ extracted[c] # <<>> /\ extracted[c] # cookie
        /\ pc[c] = "targetWait"
        /\ sentCookie[c] = cookie

(***************************************************************************)
(* C19: a login response with a 2xx status and no session cookie makes the *)
(* call fail right there: nothing is put into the cell, no target request  *)
(* is sent; and a call that begins while the cell is empty sends a login   *)
(* request.                                                                *)
(***************************************************************************)
C19_MissingCookieFailsLogin ==
    [][ /\ \A c \in Calls :
              ( /\ pc[c] = "loginWait"
                /\ loginStatus'[c] # <<>>
                /\ IsSuccess(loginStatus'[c][1])
                /\ extracted'[c] = <<>> )
                  => /\ pc'[c] = "done"
                     /\ result'[c].kind \notin {"Pending", "Ok", "Panic"}
                     /\ cookie' = cookie
                     /\ trace'[c] = <<"login_req", "login_resp">>
        /\ \A d \in Calls :
              (pc[d] = "idle" /\ pc'[d] # "idle" /\ cookie = <<>>) =>
                  trace'[d] = <<"login_req">> ]_vars

\* A 200 without a cookie failed one call; the other then sent its login.
C19_Witness ==
    \E c, d \in Calls :
        /\ loginStatus[c] = <<200>> /\ extracted[c] = <<>>
        /\ pc[c] = "done" /\ Failed(c)
        /\ cookie = <<>>
        /\ pc[d] = "loginWait"
        /\ loginsSent = 2

(***************************************************************************)
(* C20: logout() goes through the pipeline like any call: begun without a  *)
(* token it logs in first; its success leaves the cached token in place;   *)
(* a call begun after a successful logout skips login and sends no login   *)
(* request.                                                                *)
(***************************************************************************)
LoggedOut(c) ==
    /\ endpoint[c].path = "auth/logout"
    /\ pc[c] = "done"
    /\ result[c].kind = "Ok"

C20_LogoutKeepsToken ==
    [][ /\ \A c \in Calls :
              /\ (~LoggedOut(c) /\ LoggedOut(c)') =>
                    /\ cookie # <<>> /\ cookie' = cookie
                    /\ sentCookie[c] = cookie
                    /\ startedAbsent[c] => trace'[c][1] = "login_req"
              /\ LoggedOut(c) => (cookie # <<>> /\ cookie' = cookie)
        /\ \A c, d \in Calls :
              (LoggedOut(c) /\ pc[d] = "idle" /\ pc'[d] # "idle") =>
                  /\ pc'[d] = "build"
                  /\ loginsSent' = loginsSent
                  /\ trace'[d] = <<>> ]_vars

\* logout() logged in and succeeded; a later call went out with that token.
C20_Witness ==
    \E c, d \in Calls :
        /\ LoggedOut(c) /\ startedAbsent[c]
        /\ ~startedAbsent[d]
        /\ trace[d] = <<"target_req", "target_resp">>
        /\ result[d].kind = "Ok"
        /\ sentCookie[d] = cookie /\ sentCookie[c] = cookie
        /\ loginsSent = 1
====
